---- MODULE Spec2Model ----
(***************************************************************************)
(* lib/crypto/pk-browser.js of bcoin: RSA PKCS#1 v1.5 sign / verify over   *)
(* the BN engine, and the ECDSA adapter over the elliptic curve engine.    *)
(*                                                                         *)
(* Buffers are sequences of bytes, index 0 of the code being index 1 here. *)
(* A BN is the big-endian byte string of the number without leading zero   *)
(* bytes (zero is the empty string).  Every function of the code is an     *)
(* operator returning a record with the error thrown (err, "" when the     *)
(* call returned), the value returned (ok or out) and what the call did on *)
(* its way (em, k, calls, cmps).  The state machine is a caller making     *)
(* the calls.                                                              *)
(***************************************************************************)
EXTENDS Integers, Sequences, FiniteSets, TLC

\* Messages are <<>> and the one-byte messages <<1>> .. <<MaxMsgByte>>.
MaxMsgByte == 1

(***************************************************************************)
(* The BN engine (lib/crypto/bn.js, a copy of bn.js): construction from a  *)
(* buffer, bitLength, cmp, toRed/redPow/fromRed and toArrayLike.           *)
(*                                                                         *)
(* A value is bound with  CHOOSE r \in {F(v) : v \in {e}} : TRUE  where it *)
(* is used more than once, so that it is computed once.                    *)
(***************************************************************************)

\* new BN(buffer): the number a big-endian buffer spells
BN(b) ==
  IF \A i \in 1..Len(b) : b[i] = 0 THEN <<>>
  ELSE SubSeq(b, CHOOSE i \in 1..Len(b) : b[i] # 0 /\ \A j \in 1..(i - 1) : b[j] = 0, Len(b))

\* a.cmp(b): -1, 0 or 1
Cmp(a, b) ==
  IF Len(a) < Len(b) THEN -1
  ELSE IF Len(a) > Len(b) THEN 1
  ELSE IF a = b THEN 0
  ELSE LET i == CHOOSE i \in 1..Len(a) : a[i] # b[i] /\ \A j \in 1..(i - 1) : a[j] = b[j]
       IN IF a[i] < b[i] THEN -1 ELSE 1

\* the number of bits of one byte
ByteBits(x) ==
  IF x >= 128 THEN 8 ELSE IF x >= 64 THEN 7 ELSE IF x >= 32 THEN 6 ELSE IF x >= 16 THEN 5
  ELSE IF x >= 8 THEN 4 ELSE IF x >= 4 THEN 3 ELSE IF x >= 2 THEN 2 ELSE x

\* a.bitLength()
bitLength(a) == IF a = <<>> THEN 0 ELSE 8 * (Len(a) - 1) + ByteBits(a[1])

\* a.toArrayLike(Buffer, 'be'): no length is asked for, so the buffer is as long as
\* the number, and one zero byte for zero
toArrayLike(a) == IF a = <<>> THEN <<0>> ELSE a

\* The digits lo..hi (counted from the least significant byte) of acc*256 + a*d - q*N:
\* st is <<carry, digits so far>>.
RECURSIVE StepRange(_, _, _, _, _, _, _, _)
StepRange(st, acc, a, d, q, N, lo, hi) ==
  IF lo = hi
  THEN LET av == IF lo < Len(a) THEN a[Len(a) - lo] ELSE 0
           cv == IF lo >= 1 /\ lo <= Len(acc) THEN acc[Len(acc) - lo + 1] ELSE 0
           nv == IF lo < Len(N) THEN N[Len(N) - lo] ELSE 0
       IN CHOOSE r \in {<<v \div 256, <<v % 256>> \o st[2]>> :
                         v \in {cv + av * d - q * nv + st[1]}} : TRUE
  ELSE CHOOSE r \in {StepRange(s, acc, a, d, q, N, ((lo + hi) \div 2) + 1, hi) :
                       s \in {StepRange(st, acc, a, d, q, N, lo, (lo + hi) \div 2)}} : TRUE

\* acc*256 + a*d - q*N, a number of at most L bytes that is not negative
Step(acc, a, d, q, N, L) == BN(StepRange(<<0, <<>>>>, acc, a, d, q, N, 0, L - 1)[2])

\* a + b and a - b (a >= b)
Add(a, b) == Step(<<>>, a, 1, -1, b, (IF Len(a) > Len(b) THEN Len(a) ELSE Len(b)) + 1)
Sub(a, b) == Step(<<>>, a, 1, 1, b, Len(a))

\* the value of the digits of x above its w low digits (at most four of them)
Top(x, w) ==
  LET p(i) == IF Len(x) - w - i >= 1 THEN x[Len(x) - w - i] ELSE 0
  IN p(0) + 256 * p(1) + 65536 * p(2) + 16777216 * p(3)

\* t mod N for t < 2^16 * N: the quotient is estimated from below on the leading digits
RECURSIVE Reduce(_, _)
Reduce(t, N) ==
  IF Cmp(t, N) < 0 THEN t
  ELSE LET w == IF Len(N) >= 2 THEN Len(N) - 2 ELSE 0
       IN CHOOSE r \in {Reduce(u, N) :
            u \in {Step(<<>>, t, 1, IF q = 0 THEN 1 ELSE q, N, Len(t)) :
                   q \in {Top(t, w) \div (Top(N, w) + 1)}}} : TRUE

\* x on L digits
Pad(x, L) == [j \in 1..L |-> IF j > L - Len(x) THEN x[j - (L - Len(x))] ELSE 0] \o <<>>

\* one round of carries on L digits of any size; the leading digit keeps the rest
HCarry(V, L) ==
  [j \in 1..L |-> (IF j = 1 THEN V[1] ELSE V[j] % 256)
                  + (IF j < L THEN V[j + 1] \div 256 ELSE 0)] \o <<>>

\* U - q*M with q the quotient estimated on the four leading digits
HSub(U, M, L) ==
  CHOOSE r \in {HCarry(V, L) :
     V \in {[j \in 1..L |-> U[j] - q * M[j]] \o <<>> :
            q \in {((((U[1] * 256 + U[2]) * 256 + U[3]) * 256) + U[4])
                   \div (M[3] * 256 + M[4])}}} : TRUE

\* one step of Horner's rule, acc*256 + a*d, reduced by a multiple of the modulus
HStep(acc, ap, d, Np, L) ==
  CHOOSE r \in {HSub(U, M, L) :
     U \in {[j \in 1..L |-> (IF j = 1 THEN A[1] * 256 + A[2]
                             ELSE IF j < L THEN A[j + 1] ELSE 0) + P[j] * D] \o <<>> :
            A \in {acc}, P \in {ap}, D \in {d}},
     M \in {Np}} : TRUE

RECURSIVE HRange(_, _, _, _, _, _, _)
HRange(acc, ap, b, Np, L, lo, hi) ==
  IF lo > hi THEN acc
  ELSE IF lo = hi THEN HStep(acc, ap, b[lo], Np, L)
  ELSE CHOOSE r \in {HRange(s, ap, b, Np, L, ((lo + hi) \div 2) + 1, hi) :
                       s \in {HRange(acc, ap, b, Np, L, lo, (lo + hi) \div 2)}} : TRUE

WorkLen(N) == (IF Len(N) < 2 THEN 2 ELSE Len(N)) + 2

MulModV(A, B, M, L) ==
  CHOOSE r \in {Reduce(Step(<<>>, h, 1, -8, M, L), M) :
                  h \in {HRange(Pad(<<>>, L), Pad(A, L), B, Pad(M, L), L, 1, Len(B))}} : TRUE

\* a*b mod N for a < N
MulMod(a, b, N) ==
  IF a = <<>> \/ b = <<>> THEN <<>>
  ELSE CHOOSE r \in {IF Len(A) < Len(B) THEN MulModV(B, A, M, WorkLen(M))
                     ELSE MulModV(A, B, M, WorkLen(M)) :
                       A \in {a}, B \in {b}, M \in {N}} : TRUE

\* a mod N
Mod(a, N) == IF Cmp(a, N) < 0 THEN a ELSE MulModV(<<1>>, a, N, WorkLen(N))

\* the bits of e, the most significant first
Bits(e) ==
  [i \in 1..8 * Len(e) |-> (e[((i - 1) \div 8) + 1] \div (2 ^ (7 - ((i - 1) % 8)))) % 2]
  \o <<>>

RECURSIVE PowRange(_, _, _, _, _, _)
PowRange(r, a, bits, N, lo, hi) ==
  IF lo > hi THEN r
  ELSE IF lo = hi
  THEN CHOOSE x \in {IF bits[lo] = 1 THEN MulMod(s, a, N) ELSE s :
                       s \in {MulMod(r, r, N)}} : TRUE
  ELSE CHOOSE x \in {PowRange(s, a, bits, N, ((lo + hi) \div 2) + 1, hi) :
                       s \in {PowRange(r, a, bits, N, lo, (lo + hi) \div 2)}} : TRUE

\* a.toRed(BN.red(N)).redPow(e).fromRed(): a^e mod N, by squaring and multiplying from
\* the leading bit of e on
PowMod(a, e, N) ==
  IF e = <<>> THEN Mod(<<1>>, N)
  ELSE CHOOSE x \in {PowRange(base, base, bits, N, 10 - ByteBits(e[1]), Len(bits)) :
                       base \in {Mod(a, N)}, bits \in {Bits(e)}} : TRUE

(***************************************************************************)
(* The collaborators of lib/crypto/pk-browser.js                           *)
(***************************************************************************)

\* the digest identifiers of backend.hash
AlgNames == {"md5", "sha1", "sha224", "sha256", "sha384", "sha512", "ripemd160"}

\* the length of the digest of each
HashLen ==
  [md5 |-> 16, sha1 |-> 20, sha224 |-> 28, sha256 |-> 32, sha384 |-> 48, sha512 |-> 64,
   ripemd160 |-> 20]

AlgSalt ==
  [md5 |-> 1, sha1 |-> 2, sha224 |-> 3, sha256 |-> 4, sha384 |-> 5, sha512 |-> 6,
   ripemd160 |-> 7]

\* backend.hash(alg, msg): a digest of the right length that depends on every byte of
\* the message and on the algorithm
backend_hash(alg, msg) ==
  LET w == Len(msg) + (IF Len(msg) >= 1 THEN 2 * msg[1] ELSE 0)
                    + (IF Len(msg) >= 2 THEN 3 * msg[2] ELSE 0)
  IN [i \in 1..HashLen[alg] |-> (31 * i + 17 * AlgSalt[alg] + 101 * w) % 256]

\* backend.ccmp(a, b): whether two buffers are equal, in constant time
backend_ccmp(a, b) == a = b

\* ASN1.parseRSAPublic(key), ASN1.parseRSAPrivate(key): the integers of a key, as
\* buffers; a key that does not decode makes them throw
parseRSAPublic(key) == [modulus |-> key.modulus, publicExponent |-> key.publicExponent]
parseRSAPrivate(key) == [modulus |-> key.modulus, privateExponent |-> key.privateExponent]

\* the curves elliptic knows
Curves == {"secp256k1", "p256"}

\* ec.sign(hash, key) and ec.verify(hash, sig, key) of the curve engine elliptic.ec(curve)
ec_sign(curve, hash, key) == <<Len(curve), key>> \o hash
ec_verify(curve, hash, sig, key) == sig = ec_sign(curve, hash, key)

\* the value of a parameter that was not passed
undefined == "(undefined)"

(***************************************************************************)
(* lib/crypto/pk-browser.js                                                *)
(***************************************************************************)

\* the messages of the errors thrown
UnknownPrefix == "Unknown PKCS prefix."
MessageTooLong == "Message too long."
CannotDecrypt == "Cannot decrypt."
NoCurveSelected == "No curve selected."
\* and of the collaborators
MalformedKey == "MalformedKey"
UnknownAlgorithm == "UnknownAlgorithm"
UnknownCurve == "UnknownCurve"

\* a variant: one byte less is asked of the key
PadOverheadLoose == 11 - 1

\* the bytes of a block that are neither prefix nor hash: 00 01, eight of ff at least,
\* and 00
PadOverhead == 11

\* a variant: the prefix of sha256 with a byte more
rsa_prefixes_long ==
  [md5       |-> <<48, 32, 48, 12, 6, 8, 42, 134, 72, 134, 247, 13, 2, 5, 5, 0, 4, 16>>,
   sha1      |-> <<48, 33, 48, 9, 6, 5, 43, 14, 3, 2, 26, 5, 0, 4, 20>>,
   sha224    |-> <<48, 45, 48, 13, 6, 9, 96, 134, 72, 1, 101, 3, 4, 2, 4, 5, 0, 4, 28>>,
   sha256    |-> <<48, 50, 48, 14, 6, 9, 96, 134, 72, 1, 101, 3, 4, 2, 1, 5, 0, 0, 4, 32>>,
   sha384    |-> <<48, 65, 48, 13, 6, 9, 96, 134, 72, 1, 101, 3, 4, 2, 2, 5, 0, 4, 48>>,
   sha512    |-> <<48, 81, 48, 13, 6, 9, 96, 134, 72, 1, 101, 3, 4, 2, 3, 5, 0, 4, 64>>,
   ripemd160 |-> <<48, 32, 48, 8, 6, 6, 40, 207, 6, 3, 0, 49, 4, 20>>]

rsa_prefixes ==
  [md5       |-> <<48, 32, 48, 12, 6, 8, 42, 134, 72, 134, 247, 13, 2, 5, 5, 0, 4, 16>>,
   sha1      |-> <<48, 33, 48, 9, 6, 5, 43, 14, 3, 2, 26, 5, 0, 4, 20>>,
   sha224    |-> <<48, 45, 48, 13, 6, 9, 96, 134, 72, 1, 101, 3, 4, 2, 4, 5, 0, 4, 28>>,
   sha256    |-> <<48, 49, 48, 13, 6, 9, 96, 134, 72, 1, 101, 3, 4, 2, 1, 5, 0, 4, 32>>,
   sha384    |-> <<48, 65, 48, 13, 6, 9, 96, 134, 72, 1, 101, 3, 4, 2, 2, 5, 0, 4, 48>>,
   sha512    |-> <<48, 81, 48, 13, 6, 9, 96, 134, 72, 1, 101, 3, 4, 2, 3, 5, 0, 4, 64>>,
   ripemd160 |-> <<48, 32, 48, 8, 6, 6, 40, 207, 6, 3, 0, 49, 4, 20>>]

\* what a call leaves before it has done anything
NoResult ==
  [err |-> "", ok |-> FALSE, out |-> <<>>, em |-> <<>>, k |-> 0, calls |-> <<>>, cmps |-> <<>>]

\* bit i of a byte
Bit(x, i) == (x \div (2 ^ i)) % 2
\* a ^ b, a & b, ~a & 0xff and a >>> n on bytes
Xor8(a, b) ==
  LET f(i) == (Bit(a, i) + Bit(b, i)) % 2
  IN f(0) + 2 * f(1) + 4 * f(2) + 8 * f(3) + 16 * f(4) + 32 * f(5) + 64 * f(6) + 128 * f(7)
And8(a, b) ==
  LET f(i) == Bit(a, i) * Bit(b, i)
  IN f(0) + 2 * f(1) + 4 * f(2) + 8 * f(3) + 16 * f(4) + 32 * f(5) + 64 * f(6) + 128 * f(7)
Not8(a) == 255 - a
Shr(a, n) == a \div (2 ^ n)

ceq(a, b) ==
  LET r0 == Not8(Xor8(a, b))
      r1 == And8(r0, Shr(r0, 4))
      r2 == And8(r1, Shr(r1, 2))
      r3 == And8(r2, Shr(r2, 1))
  IN r3 = 1

leftpad(input, size) ==
  LET n == IF Len(input) > size THEN size ELSE Len(input)
  IN [j \in 1..size |-> IF j > size - n THEN input[j - (size - n)] ELSE 0] \o <<>>

rsa_encrypt(N, e, m) == toArrayLike(PowMod(BN(m), e, N))

rsa_decrypt(N, D, m) ==
  IF Cmp(BN(m), N) > 0
  THEN [NoResult EXCEPT !.err = CannotDecrypt, !.calls = <<"rsa.decrypt">>]
  ELSE [NoResult EXCEPT !.out = toArrayLike(PowMod(BN(m), D, N)),
                        !.calls = <<"rsa.decrypt", "redPow">>]

\* ok &= b, and the comparison that was made
Acc(st, b, cmp) == [ok |-> IF st.ok = 1 /\ b THEN 1 ELSE 0, cmps |-> Append(st.cmps, cmp)]

\* a variant: the loop stops at the first byte that is not ff
RECURSIVE verify_loop_exit(_, _, _, _)
verify_loop_exit(em, i, end, st) ==
  IF i < end /\ st.ok = 1
  THEN CHOOSE r \in {verify_loop_exit(em, i + 1, end, s) :
                       s \in {Acc(st, ceq(em[i + 1], 255), <<"ceq", i>>)}} : TRUE
  ELSE st

\* for (i = 2; i < k - len - 1; i++) ok &= ceq(em[i], 0xff);
RECURSIVE verify_loop(_, _, _, _)
verify_loop(em, i, end, st) ==
  IF i < end
  THEN CHOOSE r \in {verify_loop(em, i + 1, end, s) :
                       s \in {Acc(st, ceq(em[i + 1], 255), <<"ceq", i>>)}} : TRUE
  ELSE st

\* a variant: the byte between the ff bytes and the prefix is compared and not counted
verify_em_nosep(em, k, prefix, hash) ==
  LET len == Len(prefix) + Len(hash)
      s0 == [ok |-> IF ceq(em[1], 0) THEN 1 ELSE 0, cmps |-> <<<<"ceq", 0>>>>]
      s1 == Acc(s0, ceq(em[2], 1), <<"ceq", 1>>)
      s2 == Acc(s1, backend_ccmp(SubSeq(em, k - Len(hash) + 1, k), hash),
                <<"ccmp", k - Len(hash), k>>)
      s3 == Acc(s2, backend_ccmp(SubSeq(em, k - len + 1, k - Len(hash)), prefix),
                <<"ccmp", k - len, k - Len(hash)>>)
      s4 == Acc(s3, ceq(em[k - len], 0) \/ TRUE, <<"ceq", k - len - 1>>)
  IN CHOOSE r \in {verify_loop(em, 2, k - len - 1, s) : s \in {s4}} : TRUE

\* lines 77 to 86 of rsa.verify: the checks of the block
verify_em(em, k, prefix, hash) ==
  LET len == Len(prefix) + Len(hash)
      s0 == [ok |-> IF ceq(em[1], 0) THEN 1 ELSE 0, cmps |-> <<<<"ceq", 0>>>>]
      s1 == Acc(s0, ceq(em[2], 1), <<"ceq", 1>>)
      s2 == Acc(s1, backend_ccmp(SubSeq(em, k - Len(hash) + 1, k), hash),
                <<"ccmp", k - Len(hash), k>>)
      s3 == Acc(s2, backend_ccmp(SubSeq(em, k - len + 1, k - Len(hash)), prefix),
                <<"ccmp", k - len, k - Len(hash)>>)
      s4 == Acc(s3, ceq(em[k - len], 0), <<"ceq", k - len - 1>>)
  IN CHOOSE r \in {verify_loop(em, 2, k - len - 1, s) : s \in {s4}} : TRUE

rsa_verify(alg, msg, sig, key) ==
  IF alg \notin DOMAIN rsa_prefixes
  THEN [NoResult EXCEPT !.err = UnknownPrefix]
  ELSE IF ~key.wellFormed
  THEN [NoResult EXCEPT !.err = MalformedKey, !.calls = <<"hash", "parseRSAPublic">>]
  ELSE
    LET prefix == rsa_prefixes[alg]
        hash == backend_hash(alg, msg)
        len == Len(prefix) + Len(hash)
        pub == parseRSAPublic(key)
        N == BN(pub.modulus)
        e == BN(pub.publicExponent)
        k == (bitLength(N) + 7) \div 8
    IN IF k < len + PadOverhead
       THEN [NoResult EXCEPT !.err = MessageTooLong, !.k = k,
                             !.calls = <<"hash", "parseRSAPublic">>]
       ELSE CHOOSE r \in UNION
              {{[NoResult EXCEPT !.ok = (st.ok = 1), !.em = em, !.k = k, !.cmps = st.cmps,
                                 !.calls = <<"hash", "parseRSAPublic", "rsa.encrypt", "redPow">>] :
                st \in {verify_em(em, k, prefix, hash)}} :
               em \in {leftpad(rsa_encrypt(N, e, sig), k)}} : TRUE

\* a variant: the ff bytes run over the byte before the prefix
sign_em_nosep(k, prefix, hash) ==
  LET len == Len(prefix) + Len(hash)
  IN [j \in 1..k |->
        IF j - 1 = 1 THEN 1
        ELSE IF j - 1 >= 2 /\ j - 1 < k - len THEN 255
        ELSE IF j - 1 >= k - len /\ j - 1 < k - Len(hash) THEN prefix[j - (k - len)]
        ELSE IF j - 1 >= k - Len(hash) THEN hash[j - (k - Len(hash))]
        ELSE 0] \o <<>>

\* a variant: the byte 01 is written at the head of the block
sign_em_head(k, prefix, hash) ==
  LET len == Len(prefix) + Len(hash)
  IN [j \in 1..k |->
        IF j - 1 = 0 THEN 1
        ELSE IF j - 1 >= 2 /\ j - 1 < k - len - 1 THEN 255
        ELSE IF j - 1 >= k - len /\ j - 1 < k - Len(hash) THEN prefix[j - (k - len)]
        ELSE IF j - 1 >= k - Len(hash) THEN hash[j - (k - Len(hash))]
        ELSE 0] \o <<>>

\* lines 117 to 125 of rsa.sign: the block to sign
sign_em(k, prefix, hash) ==
  LET len == Len(prefix) + Len(hash)
  IN [j \in 1..k |->
        IF j - 1 = 1 THEN 1
        ELSE IF j - 1 >= 2 /\ j - 1 < k - len - 1 THEN 255
        ELSE IF j - 1 >= k - len /\ j - 1 < k - Len(hash) THEN prefix[j - (k - len)]
        ELSE IF j - 1 >= k - Len(hash) THEN hash[j - (k - Len(hash))]
        ELSE 0] \o <<>>

rsa_sign(alg, msg, key) ==
  IF alg \notin DOMAIN rsa_prefixes
  THEN [NoResult EXCEPT !.err = UnknownPrefix]
  ELSE IF ~key.wellFormed
  THEN [NoResult EXCEPT !.err = MalformedKey, !.calls = <<"hash", "parseRSAPrivate">>]
  ELSE
    LET prefix == rsa_prefixes[alg]
        hash == backend_hash(alg, msg)
        len == Len(prefix) + Len(hash)
        priv == parseRSAPrivate(key)
        N == BN(priv.modulus)
        D == BN(priv.privateExponent)
        k == (bitLength(N) + 7) \div 8
    IN IF k < len + PadOverhead
       THEN [NoResult EXCEPT !.err = MessageTooLong, !.k = k,
                             !.calls = <<"hash", "parseRSAPrivate">>]
       ELSE CHOOSE r \in UNION
              {{[d EXCEPT !.em = em, !.k = k,
                          !.calls = <<"hash", "parseRSAPrivate">> \o d.calls] :
                d \in {rsa_decrypt(N, D, em)}} :
               em \in {sign_em(k, prefix, hash)}} : TRUE

\* a variant: only an absent value fails
truthy_absent(value) == value # undefined

\* assert(value, message): whether the value passes
truthy(value) == value \notin {"", undefined}

ecdsa_verify(curve, alg, msg, sig, key) ==
  IF ~truthy(curve)
  THEN [NoResult EXCEPT !.err = NoCurveSelected]
  ELSE IF curve \notin Curves
  THEN [NoResult EXCEPT !.err = UnknownCurve, !.calls = <<"elliptic.ec">>]
  ELSE IF alg \notin AlgNames
  THEN [NoResult EXCEPT !.err = UnknownAlgorithm, !.calls = <<"elliptic.ec", "hash">>]
  ELSE [NoResult EXCEPT !.ok = ec_verify(curve, backend_hash(alg, msg), sig, key),
                        !.calls = <<"elliptic.ec", "hash", "ec.verify">>]

ecdsa_sign(curve, alg, msg, key) ==
  IF ~truthy(curve)
  THEN [NoResult EXCEPT !.err = NoCurveSelected]
  ELSE IF curve \notin Curves
  THEN [NoResult EXCEPT !.err = UnknownCurve, !.calls = <<"elliptic.ec">>]
  ELSE IF alg \notin AlgNames
  THEN [NoResult EXCEPT !.err = UnknownAlgorithm, !.calls = <<"elliptic.ec", "hash">>]
  ELSE [NoResult EXCEPT !.out = ec_sign(curve, backend_hash(alg, msg), key),
                        !.calls = <<"elliptic.ec", "hash", "ec.sign">>]

(***************************************************************************)
(* The caller: the keys, messages and signatures it uses                   *)
(*                                                                         *)
(* The keys A and B have the public exponent 3.  Their moduli are products *)
(* of distinct primes p (FactorsA, FactorsB) whose p - 1 have a small      *)
(* common multiple, so that the private exponent is three bytes long.  A5  *)
(* is A with a private exponent that does not belong to the public one.    *)
(* The keys u44 .. u94 have the exponents e = d = 1; the modulus of u45 is  *)
(* the smallest of 45 bytes, and that of u63 is stored after a zero byte.  *)
(***************************************************************************)

\* a modulus of 46 bytes, the product of 36 primes; lcm(p - 1) = 1980160
ModulusA ==
  <<183, 182, 54, 79, 99, 225, 98, 212, 147, 165, 134, 126, 183, 176, 4, 170, 185, 193, 253, 41,
    69, 252, 131, 219, 15, 100, 254, 14, 186, 68, 161, 167, 36, 119, 71, 202, 62, 113, 196, 118,
    218, 0, 219, 221, 16, 69>>

FactorsA ==
  {5, 11, 17, 29, 41, 53, 71, 113, 131, 137, 239, 257, 281, 443, 449, 521, 641, 911, 953,
    1361, 2081, 2381, 3329, 4421, 4481, 5441, 9521, 14561, 15233, 17681, 23297, 28289, 30941,
    198017, 282881, 495041}

\* a modulus of 62 bytes, the product of 46 primes; lcm(p - 1) = 4004000
ModulusB ==
  <<1, 13, 193, 29, 170, 217, 188, 119, 5, 136, 183, 37, 125, 252, 44, 113, 161, 248, 59, 171,
    8, 231, 161, 217, 127, 60, 252, 211, 92, 76, 228, 134, 207, 62, 99, 49, 252, 133, 0, 207,
    231, 88, 219, 63, 222, 220, 84, 145, 41, 40, 69, 153, 218, 104, 8, 194, 122, 175, 215, 179,
    93, 7>>

FactorsB ==
  {3, 5, 11, 17, 23, 29, 41, 53, 71, 89, 101, 113, 131, 251, 281, 353, 401, 521, 617, 881,
    911, 1301, 2003, 2081, 2801, 2861, 3251, 3851, 4001, 5501, 7001, 7151, 8009, 13001, 14561,
    15401, 20021, 22751, 28001, 38501, 50051, 154001, 200201, 500501, 800801, 2002001}

\* a modulus of n bytes for the exponents e = d = 1
UnitModulus(n, top) ==
  [i \in 1..n |-> IF i = 1 THEN top ELSE IF i = n THEN 1 ELSE (37 * i) % 256]

RsaKey(N, e, d, factors) ==
  [wellFormed |-> TRUE, modulus |-> N, publicExponent |-> e, privateExponent |-> d,
   factors |-> factors]

Keys ==
  [bad |-> [wellFormed |-> FALSE, modulus |-> <<>>, publicExponent |-> <<>>,
            privateExponent |-> <<>>, factors |-> {}],
   A   |-> RsaKey(ModulusA, <<3>>, <<20, 36, 171>>, FactorsA),
   A5  |-> RsaKey(ModulusA, <<3>>, <<5>>, FactorsA),
   B   |-> RsaKey(ModulusB, <<3>>, <<20, 93, 139>>, FactorsB),
   u44 |-> RsaKey(UnitModulus(44, 200), <<1>>, <<1>>, {}),
   u45 |-> RsaKey([i \in 1..45 |-> IF i = 1 THEN 1 ELSE 0], <<1>>, <<1>>, {}),
   u57 |-> RsaKey(UnitModulus(57, 255), <<1>>, <<1>>, {}),
   u61 |-> RsaKey(UnitModulus(61, 128), <<1>>, <<1>>, {}),
   u63 |-> RsaKey(<<0>> \o UnitModulus(63, 255), <<1>>, <<1>>, {}),
   u77 |-> RsaKey(UnitModulus(77, 3), <<1>>, <<1>>, {}),
   u93 |-> RsaKey(UnitModulus(93, 255), <<1>>, <<1>>, {}),
   u94 |-> RsaKey(UnitModulus(94, 9), <<1>>, <<1>>, {})]

KeyNames == DOMAIN Keys

\* the algorithm names a caller passes: those of the table and one that is not in it
CallerAlgs == AlgNames \cup {"sha3"}

Msgs == {<<>>} \cup {<<b>> : b \in 1..MaxMsgByte}

\* the curve names a caller passes
CallerCurves == {"", undefined, "secp256k1", "p256", "curve0"}

\* the ECDSA keys
EcKeys == {1, 2}

\* a buffer with one byte changed
Flip(b, i) == [b EXCEPT ![i + 1] = (b[i + 1] + 1) % 256]

\* the offsets of a block of k bytes at the borders of the fields of the layout
Borders(k, len, hlen) ==
  {0, 1, 2, k - len - 2, k - len - 1, k - len, k - hlen - 1, k - hlen, k - 1}

\* the signatures a caller presents for a signature s made with a key of modulus N and
\* length k: s, s on k bytes, s + N, and s on k bytes with a byte changed
Presented(s, N, k, len, hlen) ==
  {s, leftpad(s, k), toArrayLike(Add(BN(s), BN(N)))}
    \cup {Flip(leftpad(s, k), i) : i \in Borders(k, len, hlen)}

\* for each algorithm, another one
OtherAlg ==
  [md5 |-> "ripemd160", sha1 |-> "ripemd160", ripemd160 |-> "md5", sha224 |-> "sha256",
   sha256 |-> "sha224", sha384 |-> "sha512", sha512 |-> "sha384"]

\* the signature the holder of the private key makes of the block that has the prefix of
\* another algorithm in front of the digest of the message
Forged(a, m, k, kn) ==
  rsa_decrypt(BN(Keys[kn].modulus), BN(Keys[kn].privateExponent),
              sign_em(k, rsa_prefixes[OtherAlg[a]], backend_hash(a, m))).out

\* the signatures a caller presents without one made before
Junk == {<<>>, <<0>>, <<2>>, <<255, 255>>}

(***************************************************************************)
(* The state: a caller that was set up with a key and an algorithm, where  *)
(* it is (pc), its last call (op) and the arguments, what the call         *)
(* returned or threw (ret), and the result and the message of the sign the *)
(* caller is about to verify (held, heldMsg).                              *)
(***************************************************************************)
VARIABLES pc, op, alg, msg, key, curve, sig, ret, held, heldMsg

vars == <<pc, op, alg, msg, key, curve, sig, ret, held, heldMsg>>

Init ==
  /\ pc = "idle"
  /\ op = "none"
  /\ alg \in CallerAlgs
  /\ msg = <<>>
  /\ key \in KeyNames
  /\ curve = ""
  /\ sig = <<>>
  /\ ret = NoResult
  /\ held = NoResult
  /\ heldMsg = <<>>

\* rsa.sign(alg, msg, key)
RsaSign ==
  /\ pc = "idle"
  /\ \E m \in Msgs :
       \E r \in {rsa_sign(alg, m, Keys[key])} :
         /\ op' = "rsa.sign"
         /\ msg' = m
         /\ ret' = r
         /\ held' = r
         /\ heldMsg' = m
         /\ pc' = IF r.err = "" THEN "signed" ELSE "done"
  /\ UNCHANGED <<alg, key, curve, sig>>

\* rsa.verify(alg, msg, sig, key) of a signature just made, as it is, altered or
\* forged, or of the signature with another message
RsaVerify ==
  /\ pc = "signed"
  /\ \E p \in {<<msg, s>> : s \in Presented(held.out, Keys[key].modulus, held.k,
                                           Len(rsa_prefixes[alg]) + HashLen[alg],
                                           HashLen[alg])}
              \cup {<<msg, Forged(alg, msg, held.k, key)>>}
              \cup {<<m, held.out>> : m \in Msgs} :
       \E r \in {rsa_verify(alg, p[1], p[2], Keys[key])} :
         /\ op' = "rsa.verify"
         /\ msg' = p[1]
         /\ sig' = p[2]
         /\ ret' = r
         /\ pc' = "done"
  /\ UNCHANGED <<alg, key, curve, held, heldMsg>>

\* rsa.verify(alg, msg, sig, key) of a signature that was not made with the key
RsaVerifyJunk ==
  /\ pc = "idle"
  /\ \E m \in Msgs, s \in Junk :
       \E r \in {rsa_verify(alg, m, s, Keys[key])} :
         /\ op' = "rsa.verify"
         /\ msg' = m
         /\ sig' = s
         /\ ret' = r
         /\ pc' = "done"
  /\ UNCHANGED <<alg, key, curve, held, heldMsg>>

\* rsa.decrypt(N, D, m) with m the modulus, one more, the modulus after a zero byte,
\* and one
RsaDecrypt ==
  /\ pc = "idle"
  /\ Keys[key].wellFormed
  /\ \E N \in {BN(Keys[key].modulus)} :
       \E m \in {N, Add(N, <<1>>), <<0>> \o N, <<1>>} :
         \E r \in {rsa_decrypt(N, BN(Keys[key].privateExponent), m)} :
           /\ op' = "rsa.decrypt"
           /\ sig' = m
           /\ ret' = r
           /\ pc' = "done"
  /\ UNCHANGED <<alg, msg, key, curve, held, heldMsg>>

\* ecdsa.sign(curve, alg, msg, key)
EcdsaSign ==
  /\ pc = "idle"
  /\ \E c \in CallerCurves, m \in Msgs, kn \in EcKeys :
       \E r \in {ecdsa_sign(c, alg, m, kn)} :
         /\ op' = "ecdsa.sign"
         /\ curve' = c
         /\ msg' = m
         /\ ret' = r
         /\ held' = r
         /\ heldMsg' = m
         /\ pc' = IF r.err = "" THEN "ecsigned" ELSE "done"
  /\ UNCHANGED <<alg, key, sig>>

\* ecdsa.verify(curve, alg, msg, sig, key), of a signature just made or of none
EcdsaVerify ==
  /\ pc \in {"idle", "ecsigned"}
  /\ \E c \in (IF pc = "idle" THEN CallerCurves ELSE {curve, ""}),
        m \in Msgs, kn \in EcKeys, s \in {held.out, <<0>>} :
       \E r \in {ecdsa_verify(c, alg, m, s, kn)} :
         /\ op' = "ecdsa.verify"
         /\ curve' = c
         /\ msg' = m
         /\ sig' = s
         /\ ret' = r
         /\ pc' = "done"
  /\ UNCHANGED <<alg, key, held, heldMsg>>

\* the caller starts again
Reset ==
  /\ pc = "done"
  /\ pc' = "idle"
  /\ op' = "none"
  /\ msg' = <<>>
  /\ curve' = ""
  /\ sig' = <<>>
  /\ ret' = NoResult
  /\ held' = NoResult
  /\ heldMsg' = <<>>
  /\ UNCHANGED <<alg, key>>

Next ==
  \/ RsaSign
  \/ RsaVerify
  \/ RsaVerifyJunk
  \/ RsaDecrypt
  \/ EcdsaSign
  \/ EcdsaVerify
  \/ Reset

Spec == Init /\ [][Next]_vars

(***************************************************************************)
(* What is stated of the calls                                             *)
(***************************************************************************)

\* k of a key: Math.ceil(N.bitLength() / 8)
KeyLen(kn) == (bitLength(BN(Keys[kn].modulus)) + 7) \div 8

\* len of an algorithm: prefix.length + hash.length
PkcsLen(a) == Len(rsa_prefixes[a]) + HashLen[a]

\* the number a BN of a few bytes spells
RECURSIVE Val(_)
Val(b) == IF b = <<>> THEN 0 ELSE 256 * Val(SubSeq(b, 1, Len(b) - 1)) + b[Len(b)]

\* the exponents of a key are inverse to each other: e*d = 1 modulo p - 1 for every
\* prime p of the modulus
Paired(k) ==
  /\ k.wellFormed
  /\ \/ k.publicExponent = <<1>> /\ k.privateExponent = <<1>>
     \/ /\ k.factors # {}
        /\ \A p \in k.factors :
             (Val(BN(k.publicExponent)) * Val(BN(k.privateExponent))) % (p - 1) = 1

\* the call went past the lookup of the prefix and the parsing of the key
Parsed == alg \in AlgNames /\ Keys[key].wellFormed

\* the layout of PKCS#1 v1.5 on a block of k bytes
Layout(em, k, prefix, hash) ==
  LET len == Len(prefix) + Len(hash)
  IN /\ Len(em) = k
     /\ em[1] = 0
     /\ em[2] = 1
     /\ \A i \in 2..(k - len - 2) : em[i + 1] = 255
     /\ em[k - len] = 0
     /\ SubSeq(em, k - len + 1, k - Len(hash)) = prefix
     /\ SubSeq(em, k - Len(hash) + 1, k) = hash

\* the comparisons of a block of k bytes, in the order they are made
Schedule(k, len, hlen) ==
  <<<<"ceq", 0>>, <<"ceq", 1>>, <<"ccmp", k - hlen, k>>, <<"ccmp", k - len, k - hlen>>,
    <<"ceq", k - len - 1>>>> \o [i \in 1..(k - len - 3) |-> <<"ceq", i + 1>>]

\* the caller has just verified the signature it was given by rsa.sign
VerifiedHeld == op = "rsa.verify" /\ held.k > 0 /\ held.err = "" /\ sig = held.out

\* C1: rsa.sign does not throw for a known algorithm and a key that is large enough,
\* and rsa.verify of its signature, with the same algorithm and message and the key of
\* a valid pair, returns true.
C1_RoundTrip ==
  /\ (op = "rsa.sign" /\ Parsed /\ KeyLen(key) >= PkcsLen(alg) + 11) => ret.err = ""
  /\ (VerifiedHeld /\ msg = heldMsg /\ Paired(Keys[key])) => (ret.err = "" /\ ret.ok)

C1_RoundTripDone ==
  /\ VerifiedHeld /\ msg = heldMsg /\ Paired(Keys[key])
  /\ key = "B" /\ alg = "sha256"
  /\ Len(sig) < ret.k
  /\ ret.ok

\* C2: when the algorithm is known, the key parses and k >= len + 11, rsa.verify throws
\* nothing and returns true exactly when the block it recovered has the layout
\* 00 01 ff..ff 00 prefix hash on k bytes.
C2_VerifyIffLayout ==
  (op = "rsa.verify" /\ Parsed /\ KeyLen(key) >= PkcsLen(alg) + 11)
    => /\ ret.err = ""
       /\ ret.k = KeyLen(key)
       /\ ret.ok <=> Layout(ret.em, ret.k, rsa_prefixes[alg], backend_hash(alg, msg))

C2_OneByteOff ==
  /\ op = "rsa.verify" /\ ret.err = "" /\ ~ret.ok
  /\ Len(ret.em) = ret.k
  /\ \E blk \in {sign_em(ret.k, rsa_prefixes[alg], backend_hash(alg, msg))} :
       Cardinality({i \in 1..ret.k : ret.em[i] # blk[i]}) = 1

\* C3 (as stated): the signature rsa.sign returns is exactly k bytes long.
C3_SignatureIsKBytes ==
  (op = "rsa.sign" /\ ret.err = "") => Len(ret.out) = KeyLen(key)

C3_ShortSignature ==
  /\ op = "rsa.sign" /\ ret.err = "" /\ key = "B"
  /\ Len(ret.out) < KeyLen(key)

\* C4 (as stated): rsa.verify of a signature whose number is not below the modulus
\* throws nothing and returns false.
C4_LargeSignatureRejected ==
  (op = "rsa.verify" /\ Parsed /\ KeyLen(key) >= PkcsLen(alg) + 11
     /\ Cmp(BN(sig), BN(Keys[key].modulus)) >= 0)
    => (ret.err = "" /\ ~ret.ok)

C4_LargeSignatureAccepted ==
  /\ op = "rsa.verify" /\ key = "A"
  /\ Cmp(BN(sig), BN(Keys[key].modulus)) >= 0
  /\ ret.err = "" /\ ret.ok

\* C5: once the algorithm is known and the key parsed, rsa.sign and rsa.verify throw
\* 'Message too long.' exactly when k < len + 11, and they have then made no call of
\* rsa.decrypt or rsa.encrypt; no other call throws it.
C5_KeyTooSmall ==
  /\ (op \in {"rsa.sign", "rsa.verify"} /\ Parsed)
       => /\ ret.err = MessageTooLong <=> KeyLen(key) < PkcsLen(alg) + 11
          /\ ret.err = MessageTooLong
               => \A i \in 1..Len(ret.calls) :
                    ret.calls[i] \notin {"rsa.decrypt", "rsa.encrypt", "redPow"}
          /\ ret.err = ""
               => \E i \in 1..Len(ret.calls) : ret.calls[i] = "redPow"
  /\ ~(op \in {"rsa.sign", "rsa.verify"} /\ Parsed) => ret.err # MessageTooLong

C5_OneByteTooSmall ==
  /\ op = "rsa.sign" /\ Parsed
  /\ KeyLen(key) = PkcsLen(alg) + 10
  /\ ret.err = MessageTooLong

\* C6 (amended): the prefix of sha256 is 19 bytes long, so len = 19 + 32 = 51, and
\* rsa.sign and rsa.verify with sha256 throw 'Message too long.' exactly for the keys
\* with k < 62: k = 61 is refused and k = 62 accepted.
C6_Sha256Minimum ==
  /\ Len(rsa_prefixes["sha256"]) = 19
  /\ PkcsLen("sha256") = 51
  /\ (op \in {"rsa.sign", "rsa.verify"} /\ alg = "sha256" /\ Keys[key].wellFormed)
       => (ret.err = MessageTooLong <=> KeyLen(key) < 62)

C6_AcceptedAt62 ==
  /\ op = "rsa.sign" /\ alg = "sha256"
  /\ KeyLen(key) = 62
  /\ ret.err = ""

\* C6 (as stated): with sha256, rsa.sign and rsa.verify throw 'Message too long.' for
\* every key with k < 63, k = 62 included.
C6_Sha256MinimumAsStated ==
  (op \in {"rsa.sign", "rsa.verify"} /\ alg = "sha256" /\ Keys[key].wellFormed)
    => (ret.err = MessageTooLong <=> KeyLen(key) < 63)

\* C7: ecdsa.sign and ecdsa.verify throw 'No curve selected.' exactly when the curve is
\* the empty string or absent, and they have then neither hashed the message nor
\* looked the curve up.
C7_NoCurveSelected ==
  op \in {"ecdsa.sign", "ecdsa.verify"}
    => /\ ret.err = NoCurveSelected <=> curve \in {"", undefined}
       /\ ret.err = NoCurveSelected => ret.calls = <<>>
       /\ ret.err # NoCurveSelected => ret.calls[1] = "elliptic.ec"

C7_EmptyCurve ==
  /\ op = "ecdsa.verify" /\ curve = "" /\ alg = "sha256"
  /\ ret.err = NoCurveSelected

\* C8 (as stated): rsa.decrypt throws 'Cannot decrypt.' exactly when the number of the
\* block is not below the modulus.
C8_FailsFromModulusOn ==
  op = "rsa.decrypt"
    => (ret.err = CannotDecrypt <=> Cmp(BN(sig), BN(Keys[key].modulus)) >= 0)

C8_ModulusDecrypted ==
  /\ op = "rsa.decrypt"
  /\ BN(sig) = BN(Keys[key].modulus)
  /\ ret.err = "" /\ ret.out = <<0>>

\* C9: the comparisons rsa.verify makes on the block are those of the schedule of k and
\* the lengths of prefix and hash, all of them and in that order, whatever the block
\* holds.
C9_SameComparisons ==
  (op = "rsa.verify" /\ ret.err = "")
    => ret.cmps = Schedule(ret.k, PkcsLen(alg), HashLen[alg])

C9_MismatchAtFirstByte ==
  /\ op = "rsa.verify" /\ ret.err = "" /\ ~ret.ok
  /\ ret.em[1] # 0
  /\ ret.k > PkcsLen(alg) + 11
  /\ Len(ret.cmps) = ret.k - PkcsLen(alg) + 2

\* C10: the block rsa.sign builds once the size check has passed begins with 00 01 and
\* its number is below the modulus, and rsa.sign does not throw 'Cannot decrypt.'.
C10_BlockBelowModulus ==
  op = "rsa.sign"
    => /\ ret.err # CannotDecrypt
       /\ ret.em # <<>>
            => /\ ret.em[1] = 0 /\ ret.em[2] = 1
               /\ Cmp(BN(ret.em), BN(Keys[key].modulus)) < 0
       /\ (Parsed /\ KeyLen(key) >= PkcsLen(alg) + 11) => Len(ret.em) = KeyLen(key)

C10_SmallestModulus ==
  /\ op = "rsa.sign" /\ key = "u45" /\ alg = "md5"
  /\ Len(ret.em) = 45
  /\ ret.err = ""

====
